---- MODULE Spec2Model ----
(***************************************************************************)
(* Snapshot lifecycle, reader registry and node serialization of the       *)
(* time-aware B-tree (package tbtree, snapshot.go).                        *)
(*                                                                         *)
(* snapshot.go holds two definitions of Snapshot: one whose methods take   *)
(* s.rwmutex (lines 34-138) and one without any lock (lines 343-431).      *)
(* The serializer modelled here is the offset-computing one (lines         *)
(* 433-631): writeTo(w, asRoot, writeOpts) -> (off, tw, err).              *)
(***************************************************************************)
EXTENDS Integers, Sequences, FiniteSets, TLC

VARIABLES
    root,         \* Snapshot.root: the node the snapshot considers its top
    off,          \* off[n]: the in-memory offset field of node n (n.off)
    closed,       \* Snapshot.closed
    readers,      \* Snapshot.readers: reader id -> handle of the registered Reader
    maxReaderID,  \* Snapshot.maxReaderID
    notified,     \* number of times the owning tree's snapshotClosed was invoked
    handles,      \* the Readers returned to callers: <<[id, open]>>
    last,         \* the last completed call: operation, arguments, results, number of
                  \* Write calls it made on the sink, state before it
    sink,         \* the bytes the io.Writer accepted during the last WriteTo, in order
    wlog,         \* the buffers the last WriteTo handed to the byte-write helper, in order
    variant,      \* which Snapshot definition runs: "rwmutex" or "unlocked"
    rwmutex,      \* the sync.RWMutex: [r |-> number of read holders, w |-> writer thread or 0]
    pc,           \* pc[t]: position of thread t inside its current Snapshot method
    loc           \* loc[t]: locals of thread t's current call

vars == <<root, off, closed, readers, maxReaderID, notified, handles, last, sink, wlog,
          variant, rwmutex, pc, loc>>

(***************************************************************************)
(* Bounds of the model.                                                    *)
(***************************************************************************)
MaxReaders == 2        \* Reader calls that may succeed on one snapshot
MaxNotifyFail == 1     \* times snapshotClosed may fail
MaxResp == 2           \* scripted responses of the sink; later Write calls accept all
MaxBuf == 3            \* length of the buffers given to the byte-write helper on its own

(***************************************************************************)
(* Node type tags.                                                         *)
(***************************************************************************)
InnerNodeType == 0
RootInnerNodeType == 1
LeafNodeType == 2
RootLeafNodeType == 3

(***************************************************************************)
(* The node graph.  One forest; the snapshot root is one of Roots.         *)
(*   1 = inner[2, 7, 3]   2 = inner[4, 5]   3 = leaf{5,6}   4 = leaf{1}  *)
(*   5 = nodeRef, unresolved, the node store holds 6 = leaf{2}            *)
(*   7 = nodeRef, resolved to 8 = leaf{3}     9 = leaf{} (empty tree)     *)
(***************************************************************************)
Nodes == 1..9

NoEntries == <<>>

Entry(k, v, t, p) == [key |-> k, value |-> v, ts |-> t, prevTs |-> p]

Graph ==
    <<[kind |-> "inner", nodes |-> <<2, 7, 3>>, values |-> NoEntries, node |-> 0, store |-> 0],
      [kind |-> "inner", nodes |-> <<4, 5>>,    values |-> NoEntries, node |-> 0, store |-> 0],
      [kind |-> "leaf",  nodes |-> <<>>, values |-> <<Entry(<<5>>, <<50>>, 5, 0),
                                                        Entry(<<6>>, <<60, 61>>, 7, 6)>>,
                                                        node |-> 0, store |-> 0],
      [kind |-> "leaf",  nodes |-> <<>>, values |-> <<Entry(<<1>>, <<10>>, 1, 0)>>,
                                                        node |-> 0, store |-> 0],
      [kind |-> "ref",   nodes |-> <<>>, values |-> NoEntries, node |-> 0, store |-> 6],
      [kind |-> "leaf",  nodes |-> <<>>, values |-> <<Entry(<<2>>, <<20, 21>>, 2, 0)>>,
                                                        node |-> 0, store |-> 0],
      [kind |-> "ref",   nodes |-> <<>>, values |-> NoEntries, node |-> 8, store |-> 8],
      [kind |-> "leaf",  nodes |-> <<>>, values |-> <<Entry(<<3, 0>>, <<30>>, 4, 3)>>,
                                                        node |-> 0, store |-> 0],
      [kind |-> "leaf",  nodes |-> <<>>, values |-> NoEntries, node |-> 0, store |-> 0]>>

Roots == {1, 2, 3, 5, 7, 9}

kind(n) == Graph[n].kind

\* The offset a node of the forest has when it was read from (or written to) the log
\* before the snapshot was taken.
DiskOff(n) == 400 + 40 * n

RECURSIVE Reach(_)
Reach(n) ==
    {n} \cup (UNION {Reach(Graph[n].nodes[i]) : i \in DOMAIN Graph[n].nodes})
        \cup (IF kind(n) = "ref" THEN Reach(Graph[n].store) ELSE {})

(***************************************************************************)
(* The node capability: offset, mutated, maxKey, ts, size, resolve.        *)
(***************************************************************************)
offset(o, n) == o[n]

\* The persisted test of the serializer: offset above the "unpersisted" sentinel 0.
persisted(o, n) == o[n] > 0

mutated(o, n) ==
    IF kind(n) = "ref"
    THEN Graph[n].node # 0 /\ ~persisted(o, Graph[n].node)
    ELSE ~persisted(o, n)

RECURSIVE maxKey(_)
maxKey(n) ==
    CASE kind(n) = "leaf"  -> IF Graph[n].values = <<>> THEN <<>>
                              ELSE Graph[n].values[Len(Graph[n].values)].key
      [] kind(n) = "inner" -> maxKey(Graph[n].nodes[Len(Graph[n].nodes)])
      [] kind(n) = "ref"   -> maxKey(Graph[n].store)

Max(a, b) == IF a >= b THEN a ELSE b

RECURSIVE maxTs(_, _)
RECURSIVE ts(_)
maxTs(s, i) == IF i > Len(s) THEN 0 ELSE Max(s[i], maxTs(s, i + 1))
ts(n) ==
    CASE kind(n) = "leaf"  -> maxTs([i \in DOMAIN Graph[n].values |-> Graph[n].values[i].ts], 1)
      [] kind(n) = "inner" -> maxTs([i \in DOMAIN Graph[n].nodes |-> ts(Graph[n].nodes[i])], 1)
      [] kind(n) = "ref"   -> ts(Graph[n].store)

RECURSIVE SumSeq(_, _)
SumSeq(s, i) == IF i > Len(s) THEN 0 ELSE s[i] + SumSeq(s, i + 1)

\* Byte length of the node's record written as non-root.
RECURSIVE size(_)
size(n) ==
    CASE kind(n) = "leaf"  ->
            1 + 4 + 4 + SumSeq([i \in DOMAIN Graph[n].values |->
                                  4 + Len(Graph[n].values[i].key)
                                  + 4 + Len(Graph[n].values[i].value) + 8 + 8], 1)
      [] kind(n) = "inner" ->
            1 + 4 + 4 + SumSeq([i \in DOMAIN Graph[n].nodes |->
                                  4 + Len(maxKey(Graph[n].nodes[i])) + 8 + 4 + 8], 1)
      [] kind(n) = "ref"   -> size(Graph[n].store)

\* The three fields above for every node of the forest, computed once.
maxKeyOf == [n \in Nodes |-> maxKey(n)]
tsOf == [n \in Nodes |-> ts(n)]
sizeOf == [n \in Nodes |-> size(n)]

\* nodeRef.resolve: the node the reference stands for, from the node store.
resolve(n, storeOk) ==
    IF Graph[n].node # 0 THEN [node |-> Graph[n].node, err |-> "nil"]
    ELSE IF storeOk THEN [node |-> Graph[n].store, err |-> "nil"]
    ELSE [node |-> 0, err |-> "ErrStore"]

(***************************************************************************)
(* encoding/binary: BigEndian.PutUint32 / PutUint64.  Every integer of the *)
(* model is in 0 .. 2^31-1, so the conversions uint32(x), uint64(x) keep   *)
(* the value and the upper four bytes of a 64-bit field are zero.          *)
(***************************************************************************)
PutUint32(v) ==
    <<(v \div 16777216) % 256, (v \div 65536) % 256, (v \div 256) % 256, v % 256>>

PutUint64(v) == <<0, 0, 0, 0>> \o PutUint32(v)

Uint32(b, i) == ((b[i] * 256 + b[i + 1]) * 256 + b[i + 2]) * 256 + b[i + 3]

RECURSIVE Flatten(_, _)
Flatten(ss, i) == IF i > Len(ss) THEN <<>> ELSE ss[i] \o Flatten(ss, i + 1)

(***************************************************************************)
(* The sink (io.Writer).  resp scripts its answers to the next Write       *)
(* calls: -1 = the call returns an error, 0 = it accepts all it is         *)
(* offered, k > 0 = it accepts at most k bytes (a short write).  When the  *)
(* script is used up every Write accepts all it is offered.                *)
(*                                                                         *)
(* io is the state one WriteTo threads through its calls:                  *)
(*   off     the nodes' in-memory offsets                                  *)
(*   sink    bytes accepted by the sink so far                             *)
(*   resp    answers the sink still has scripted                           *)
(*   calls   number of Write calls made on the sink                        *)
(*   log     the buffers handed to the byte-write helper                   *)
(*   storeOk whether the node store can load unresolved references         *)
(***************************************************************************)
\* The sinks of the model: k-1 full writes, then a failure or a one-byte short write.
Sinks ==
    {<<>>} \cup {[i \in 1..k |-> IF i < k THEN 0 ELSE x] : k \in 1..MaxResp, x \in {-1, 1}}

\* The byte-write helper writeTo(buf, w): the loop offers the whole of buf on every
\* iteration and adds up what the sink accepted until the sum equals len(buf).  Once
\* the script is used up and the sum differs from len(buf), every later Write adds
\* len(buf) again and the sum is never len(buf): the loop does not end ("hang").
RECURSIVE writeLoop(_, _, _)
writeLoop(buf, wn, io) ==
    LET r    == IF io.resp = <<>> THEN 0 ELSE Head(io.resp)
        rest == IF io.resp = <<>> THEN <<>> ELSE Tail(io.resp)
    IN  IF r = -1
        THEN [err |-> "ErrIO", io |-> [io EXCEPT !.resp = rest, !.calls = @ + 1]]
        ELSE LET n   == IF r = 0 \/ r > Len(buf) THEN Len(buf) ELSE r
                 io2 == [io EXCEPT !.resp = rest, !.calls = @ + 1,
                                   !.sink = @ \o SubSeq(buf, 1, n)]
             IN  IF Len(buf) = wn + n THEN [err |-> "nil", io |-> io2]
                 ELSE IF rest = <<>> THEN [err |-> "hang", io |-> io2]
                 ELSE writeLoop(buf, wn + n, io2)

writeTo(buf, io) == writeLoop(buf, 0, io)

\* writeNodeRefTo(n, buf): the child reference record of child c.
writeNodeRefTo(c, o) ==
    PutUint32(Len(maxKeyOf[c])) \o maxKeyOf[c] \o PutUint64(tsOf[c])
        \o PutUint32(sizeOf[c]) \o PutUint64(offset(o, c))

leafEntry(v) ==
    PutUint32(Len(v.key)) \o v.key \o PutUint32(Len(v.value)) \o v.value
        \o PutUint64(v.ts) \o PutUint64(v.prevTs)

Logged(io, n, asRoot, buf, at) ==
    [io EXCEPT !.log = Append(@, [node |-> n, asRoot |-> asRoot, buf |-> buf, at |-> at])]

Failed(e, io) == [off |-> 0, tw |-> 0, err |-> e, io |-> io]

RECURSIVE node_writeTo(_, _, _, _)
RECURSIVE writeChildren(_, _, _, _, _)

\* The loop over n.nodes as it would be if the error of a child's writeTo were dropped
\* and the loop went on with the next child.
writeChildren_IgnoresError(n, i, cw, writeOpts, io) ==
    IF i > Len(Graph[n].nodes) THEN [cw |-> cw, err |-> "nil", io |-> io]
    ELSE LET c == Graph[n].nodes[i]
         IN  IF writeOpts.OnlyMutated /\ ~mutated(io.off, c)
             THEN writeChildren(n, i + 1, cw, writeOpts, io)
             ELSE LET wopts == [writeOpts EXCEPT !.BaseOffset = @ + cw]
                      r     == node_writeTo(c, FALSE, wopts, io)
                  IN  writeChildren(n, i + 1, cw + r.tw, writeOpts, r.io)

\* The loop of innerNode.writeTo over n.nodes, from child i on, cw bytes written so far.
writeChildren(n, i, cw, writeOpts, io) ==
    IF i > Len(Graph[n].nodes) THEN [cw |-> cw, err |-> "nil", io |-> io]
    ELSE LET c == Graph[n].nodes[i]
         IN  IF writeOpts.OnlyMutated /\ ~mutated(io.off, c)
             THEN writeChildren(n, i + 1, cw, writeOpts, io)
             ELSE LET wopts == [writeOpts EXCEPT !.BaseOffset = @ + cw]
                      r     == node_writeTo(c, FALSE, wopts, io)
                  IN  IF r.err # "nil" THEN [cw |-> cw, err |-> r.err, io |-> r.io]
                      ELSE writeChildren(n, i + 1, cw + r.tw, writeOpts, r.io)

\* innerNode.writeTo as it would be without the OnlyMutated test of lines 439-442.
innerNode_writeTo_NoSkip(n, asRoot, writeOpts, io) ==
    LET ch == writeChildren(n, 1, 0, writeOpts, io)
    IN  IF ch.err # "nil" THEN Failed(ch.err, ch.io)
        ELSE LET sz  == sizeOf[n]
                 buf == <<IF asRoot THEN RootInnerNodeType ELSE InnerNodeType>>
                        \o PutUint32(sz)
                        \o PutUint32(Len(Graph[n].nodes))
                        \o Flatten([i \in DOMAIN Graph[n].nodes |->
                                      writeNodeRefTo(Graph[n].nodes[i], ch.io.off)], 1)
                        \o (IF asRoot THEN PutUint32(sz) ELSE <<>>)
                 at  == writeOpts.BaseOffset + ch.cw
                 wr  == writeTo(buf, Logged(ch.io, n, asRoot, buf, at))
             IN  IF wr.err # "nil" THEN Failed(wr.err, wr.io)
                 ELSE [off |-> at,
                       tw  |-> ch.cw + sz + (IF asRoot THEN 4 ELSE 0),
                       err |-> "nil",
                       io  |-> IF writeOpts.CommitLog
                               THEN [wr.io EXCEPT !.off[n] = at]
                               ELSE wr.io]

\* innerNode.writeTo as it would be if the node's offset left out the bytes written
\* for its children (cw).
innerNode_writeTo_NoChildBytes(n, asRoot, writeOpts, io) ==
    IF writeOpts.OnlyMutated /\ io.off[n] > 0
    THEN [off |-> io.off[n], tw |-> 0, err |-> "nil", io |-> io]
    ELSE LET ch == writeChildren(n, 1, 0, writeOpts, io)
         IN  IF ch.err # "nil" THEN Failed(ch.err, ch.io)
             ELSE LET sz  == sizeOf[n]
                      buf == <<IF asRoot THEN RootInnerNodeType ELSE InnerNodeType>>
                             \o PutUint32(sz)
                             \o PutUint32(Len(Graph[n].nodes))
                             \o Flatten([i \in DOMAIN Graph[n].nodes |->
                                           writeNodeRefTo(Graph[n].nodes[i], ch.io.off)], 1)
                             \o (IF asRoot THEN PutUint32(sz) ELSE <<>>)
                      at  == writeOpts.BaseOffset
                      wr  == writeTo(buf, Logged(ch.io, n, asRoot, buf, at))
                  IN  IF wr.err # "nil" THEN Failed(wr.err, wr.io)
                      ELSE [off |-> at,
                            tw  |-> ch.cw + sz + (IF asRoot THEN 4 ELSE 0),
                            err |-> "nil",
                            io  |-> IF writeOpts.CommitLog
                                    THEN [wr.io EXCEPT !.off[n] = at]
                                    ELSE wr.io]

innerNode_writeTo(n, asRoot, writeOpts, io) ==
    IF writeOpts.OnlyMutated /\ io.off[n] > 0
    THEN [off |-> io.off[n], tw |-> 0, err |-> "nil", io |-> io]
    ELSE LET ch == writeChildren(n, 1, 0, writeOpts, io)
         IN  IF ch.err # "nil" THEN Failed(ch.err, ch.io)
             ELSE LET sz  == sizeOf[n]
                      buf == <<IF asRoot THEN RootInnerNodeType ELSE InnerNodeType>>
                             \o PutUint32(sz)
                             \o PutUint32(Len(Graph[n].nodes))
                             \o Flatten([i \in DOMAIN Graph[n].nodes |->
                                           writeNodeRefTo(Graph[n].nodes[i], ch.io.off)], 1)
                             \o (IF asRoot THEN PutUint32(sz) ELSE <<>>)
                      at  == writeOpts.BaseOffset + ch.cw
                      wr  == writeTo(buf, Logged(ch.io, n, asRoot, buf, at))
                  IN  IF wr.err # "nil" THEN Failed(wr.err, wr.io)
                      ELSE [off |-> at,
                            tw  |-> ch.cw + sz + (IF asRoot THEN 4 ELSE 0),
                            err |-> "nil",
                            io  |-> IF writeOpts.CommitLog
                                    THEN [wr.io EXCEPT !.off[n] = at]
                                    ELSE wr.io]

\* leafNode.writeTo as it would be if the trailing size of a root record were the
\* length of the whole record.
leafNode_writeTo_TrailingLen(l, asRoot, writeOpts, io) ==
    IF writeOpts.OnlyMutated /\ io.off[l] > 0
    THEN [off |-> io.off[l], tw |-> 0, err |-> "nil", io |-> io]
    ELSE LET sz  == sizeOf[l]
             buf == <<IF asRoot THEN RootLeafNodeType ELSE LeafNodeType>>
                    \o PutUint32(sz)
                    \o PutUint32(Len(Graph[l].values))
                    \o Flatten([i \in DOMAIN Graph[l].values |->
                                  leafEntry(Graph[l].values[i])], 1)
                    \o (IF asRoot THEN PutUint32(sz + 4) ELSE <<>>)
             wr  == writeTo(buf, Logged(io, l, asRoot, buf, writeOpts.BaseOffset))
         IN  IF wr.err # "nil" THEN Failed(wr.err, wr.io)
             ELSE [off |-> writeOpts.BaseOffset,
                   tw  |-> sz + (IF asRoot THEN 4 ELSE 0),
                   err |-> "nil",
                   io  |-> IF writeOpts.CommitLog
                           THEN [wr.io EXCEPT !.off[l] = writeOpts.BaseOffset]
                           ELSE wr.io]

\* leafNode.writeTo as it would be if it recorded the offset whatever CommitLog says.
leafNode_writeTo_AlwaysCommits(l, asRoot, writeOpts, io) ==
    IF writeOpts.OnlyMutated /\ io.off[l] > 0
    THEN [off |-> io.off[l], tw |-> 0, err |-> "nil", io |-> io]
    ELSE LET sz  == sizeOf[l]
             buf == <<IF asRoot THEN RootLeafNodeType ELSE LeafNodeType>>
                    \o PutUint32(sz)
                    \o PutUint32(Len(Graph[l].values))
                    \o Flatten([i \in DOMAIN Graph[l].values |->
                                  leafEntry(Graph[l].values[i])], 1)
                    \o (IF asRoot THEN PutUint32(sz) ELSE <<>>)
             wr  == writeTo(buf, Logged(io, l, asRoot, buf, writeOpts.BaseOffset))
         IN  IF wr.err # "nil" THEN Failed(wr.err, wr.io)
             ELSE [off |-> writeOpts.BaseOffset,
                   tw  |-> sz + (IF asRoot THEN 4 ELSE 0),
                   err |-> "nil",
                   io  |-> [wr.io EXCEPT !.off[l] = writeOpts.BaseOffset]]

leafNode_writeTo(l, asRoot, writeOpts, io) ==
    IF writeOpts.OnlyMutated /\ io.off[l] > 0
    THEN [off |-> io.off[l], tw |-> 0, err |-> "nil", io |-> io]
    ELSE LET sz  == sizeOf[l]
             buf == <<IF asRoot THEN RootLeafNodeType ELSE LeafNodeType>>
                    \o PutUint32(sz)
                    \o PutUint32(Len(Graph[l].values))
                    \o Flatten([i \in DOMAIN Graph[l].values |->
                                  leafEntry(Graph[l].values[i])], 1)
                    \o (IF asRoot THEN PutUint32(sz) ELSE <<>>)
             wr  == writeTo(buf, Logged(io, l, asRoot, buf, writeOpts.BaseOffset))
         IN  IF wr.err # "nil" THEN Failed(wr.err, wr.io)
             ELSE [off |-> writeOpts.BaseOffset,
                   tw  |-> sz + (IF asRoot THEN 4 ELSE 0),
                   err |-> "nil",
                   io  |-> IF writeOpts.CommitLog
                           THEN [wr.io EXCEPT !.off[l] = writeOpts.BaseOffset]
                           ELSE wr.io]

\* nodeRef.writeTo as a stub that never loads the node (as lines 285-293 are).
nodeRef_writeTo_Stub(n, asRoot, writeOpts, io) ==
    [off |-> io.off[n], tw |-> 0, err |-> "nil", io |-> io]

\* nodeRef.writeTo as it would be if the resolved node were always written as root.
nodeRef_writeTo_AsRoot(n, asRoot, writeOpts, io) ==
    IF writeOpts.OnlyMutated /\ (Graph[n].node = 0 \/ offset(io.off, Graph[n].node) > 0)
    THEN [off |-> io.off[n], tw |-> 0, err |-> "nil", io |-> io]
    ELSE LET res == resolve(n, io.storeOk)
         IN  IF res.err # "nil" THEN Failed(res.err, io)
             ELSE node_writeTo(res.node, TRUE, writeOpts, io)

nodeRef_writeTo(n, asRoot, writeOpts, io) ==
    IF writeOpts.OnlyMutated /\ (Graph[n].node = 0 \/ offset(io.off, Graph[n].node) > 0)
    THEN [off |-> io.off[n], tw |-> 0, err |-> "nil", io |-> io]
    ELSE LET res == resolve(n, io.storeOk)
         IN  IF res.err # "nil" THEN Failed(res.err, io)
             ELSE node_writeTo(res.node, asRoot, writeOpts, io)

node_writeTo(n, asRoot, writeOpts, io) ==
    CASE kind(n) = "inner" -> innerNode_writeTo(n, asRoot, writeOpts, io)
      [] kind(n) = "leaf"  -> leafNode_writeTo(n, asRoot, writeOpts, io)
      [] kind(n) = "ref"   -> nodeRef_writeTo(n, asRoot, writeOpts, io)

NewIO(o, w, storeOk) ==
    [off |-> o, sink |-> <<>>, resp |-> w, calls |-> 0, log |-> <<>>, storeOk |-> storeOk]

(***************************************************************************)
(* Descent of the immutable graph: node.get and node.findLeafNode.         *)
(***************************************************************************)
RECURSIVE KeyLeq(_, _)
KeyLeq(a, b) ==
    IF a = <<>> THEN TRUE
    ELSE IF b = <<>> THEN FALSE
    ELSE IF Head(a) # Head(b) THEN Head(a) < Head(b)
    ELSE KeyLeq(Tail(a), Tail(b))

\* Index of the first child of n whose maxKey is >= key, 0 when there is none.
childFor(n, key) ==
    LET fit == {i \in DOMAIN Graph[n].nodes : KeyLeq(key, maxKey(Graph[n].nodes[i]))}
    IN  IF fit = {} THEN 0 ELSE CHOOSE i \in fit : \A j \in fit : i <= j

NotFound == [value |-> <<>>, ts |-> 0, err |-> "ErrKeyNotFound"]

RECURSIVE get(_, _, _)
get(n, key, storeOk) ==
    CASE kind(n) = "leaf"  ->
            LET hit == {i \in DOMAIN Graph[n].values : Graph[n].values[i].key = key}
            IN  IF hit = {} THEN NotFound
                ELSE LET v == Graph[n].values[CHOOSE i \in hit : TRUE]
                     IN  [value |-> v.value, ts |-> v.ts, err |-> "nil"]
      [] kind(n) = "inner" ->
            IF childFor(n, key) = 0 THEN NotFound
            ELSE get(Graph[n].nodes[childFor(n, key)], key, storeOk)
      [] kind(n) = "ref"   ->
            LET res == resolve(n, storeOk)
            IN  IF res.err # "nil" THEN [value |-> <<>>, ts |-> 0, err |-> res.err]
                ELSE get(res.node, key, storeOk)

\* The error of findLeafNode(initialKey, nil, nil, ascOrder): "nil" when a starting
\* position exists, ErrKeyNotFound when none does, the node store's error otherwise.
RECURSIVE findLeafNode(_, _, _, _)
findLeafNode(n, initialKey, ascOrder, storeOk) ==
    CASE kind(n) = "leaf"  ->
            IF \E i \in DOMAIN Graph[n].values :
                   IF ascOrder THEN KeyLeq(initialKey, Graph[n].values[i].key)
                               ELSE KeyLeq(Graph[n].values[i].key, initialKey)
            THEN "nil" ELSE "ErrKeyNotFound"
      [] kind(n) = "inner" ->
            LET i == childFor(n, initialKey)
            IN  IF ascOrder
                THEN IF i = 0 THEN "ErrKeyNotFound"
                     ELSE findLeafNode(Graph[n].nodes[i], initialKey, ascOrder, storeOk)
                ELSE LET j == IF i = 0 THEN Len(Graph[n].nodes) ELSE i
                         e == findLeafNode(Graph[n].nodes[j], initialKey, ascOrder, storeOk)
                     IN  IF e = "ErrKeyNotFound" /\ j > 1 THEN "nil" ELSE e
      [] kind(n) = "ref"   ->
            LET res == resolve(n, storeOk)
            IN  IF res.err # "nil" THEN res.err
                ELSE findLeafNode(res.node, initialKey, ascOrder, storeOk)

(***************************************************************************)
(* Inputs of the calls.                                                    *)
(***************************************************************************)
Keys == {<<0>>, <<2>>, <<3, 0>>, <<9>>}

NilSpec == [nil |-> TRUE, initialKey |-> <<>>, isPrefix |-> FALSE, ascOrder |-> TRUE]

ReaderSpecs ==
    {NilSpec} \cup [nil : {FALSE}, initialKey : {<<2>>, <<9>>}, isPrefix : {FALSE},
                    ascOrder : BOOLEAN]

WriteOptsSet == [OnlyMutated : BOOLEAN, BaseOffset : {0, 64}, CommitLog : BOOLEAN]

NoOpts == [OnlyMutated |-> FALSE, BaseOffset |-> 0, CommitLog |-> FALSE]

Threads == {1, 2}

(***************************************************************************)
(* Initial state: a snapshot just handed out by the tree.                  *)
(***************************************************************************)
\* The log position a node was loaded from: a reference and the node it stands for
\* share the position.
HomeOff(n) ==
    LET via == {m \in Nodes : kind(m) = "ref" /\ Graph[m].store = n}
    IN  IF via = {} THEN DiskOff(n) ELSE DiskOff(CHOOSE m \in via : TRUE)

\* Sets of persisted nodes a snapshot rooted at r can start with: references and the
\* nodes still in the node store are on disk; a persisted inner node has only
\* persisted children (children are written before their parent).
ReachOf == [r \in Nodes |-> Reach(r)]

PersistedSets(r) ==
    {P \in SUBSET ReachOf[r] :
        /\ \A n \in ReachOf[r] : kind(n) = "ref" => n \in P
        /\ \A n \in ReachOf[r] : kind(n) = "ref" /\ Graph[n].node = 0 => Graph[n].store \in P
        /\ \A n \in P : kind(n) = "inner" =>
              \A i \in DOMAIN Graph[n].nodes :
                  LET c == Graph[n].nodes[i]
                  IN  c \in P /\ (kind(c) = "ref" /\ Graph[c].node # 0 => Graph[c].node \in P)}

Pre == [closed |-> FALSE, readers |-> <<>>, maxReaderID |-> 0, notified |-> 0,
        off |-> <<>>]

NoCall == [op |-> "none", err |-> "nil", val |-> 0, key |-> <<>>, spec |-> NilSpec,
           opts |-> NoOpts, w |-> <<>>, storeOk |-> TRUE, treeErr |-> "nil", calls |-> 0,
           pre |-> Pre]

Init ==
    /\ root \in Roots
    /\ \E P \in PersistedSets(root) :
          off = [n \in Nodes |-> IF n \in P THEN HomeOff(n) ELSE 0]
    /\ closed = FALSE
    /\ readers = <<>>
    /\ maxReaderID = 0
    /\ notified = 0
    /\ handles = <<>>
    /\ last = NoCall
    /\ sink = <<>>
    /\ wlog = <<>>
    /\ variant = "unlocked"
    /\ rwmutex = [r |-> 0, w |-> 0]
    /\ pc = [t \in Threads |-> "idle"]
    /\ loc = [t \in Threads |-> [id |-> 0, tmp |-> 0, h |-> 0]]

(***************************************************************************)
(* The Snapshot methods, each call running alone (one caller).             *)
(***************************************************************************)
Before == [closed |-> closed, readers |-> readers, maxReaderID |-> maxReaderID,
           notified |-> notified, off |-> off]

Call(op, err, val) == [NoCall EXCEPT !.op = op, !.err = err, !.val = val, !.pre = Before]

NoValue == [value |-> <<>>, ts |-> 0]

\* The caller is between two calls: it has taken the result of the previous one.
Ready == last.op = "none"

\* Get as it would be without the closed check.
Get_NoClosedCheck(key, storeOk) ==
    /\ Ready
    /\ last' = LET g == get(root, key, storeOk)
               IN  [Call("Get", g.err, [value |-> g.value, ts |-> g.ts])
                       EXCEPT !.key = key, !.storeOk = storeOk]
    /\ UNCHANGED <<root, off, closed, readers, maxReaderID, notified, handles, sink, wlog,
                   variant, rwmutex, pc, loc>>

Get(key, storeOk) ==
    /\ Ready
    /\ last' = IF closed
               THEN [Call("Get", "ErrAlreadyClosed", NoValue) EXCEPT !.key = key]
               ELSE LET g == get(root, key, storeOk)
                    IN  [Call("Get", g.err, [value |-> g.value, ts |-> g.ts])
                            EXCEPT !.key = key, !.storeOk = storeOk]
    /\ UNCHANGED <<root, off, closed, readers, maxReaderID, notified, handles, sink, wlog,
                   variant, rwmutex, pc, loc>>

Ts ==
    /\ Ready
    /\ last' = IF closed THEN Call("Ts", "ErrAlreadyClosed", 0)
               ELSE Call("Ts", "nil", ts(root))
    /\ UNCHANGED <<root, off, closed, readers, maxReaderID, notified, handles, sink, wlog,
                   variant, rwmutex, pc, loc>>

\* The error checks of Reader as they would be if the error of the descent were
\* returned as it is, ErrKeyNotFound included.
ReaderErr_NoTranslation(spec, storeOk) ==
    IF closed THEN "ErrAlreadyClosed"
    ELSE IF spec.nil THEN "ErrIllegalArgument"
    ELSE findLeafNode(root, spec.initialKey, spec.ascOrder, storeOk)

\* The error checks of Reader, in the order of the code.
ReaderErr(spec, storeOk) ==
    IF closed THEN "ErrAlreadyClosed"
    ELSE IF spec.nil THEN "ErrIllegalArgument"
    ELSE LET err == findLeafNode(root, spec.initialKey, spec.ascOrder, storeOk)
         IN  IF err = "ErrKeyNotFound" THEN "ErrNoMoreEntries" ELSE err

Put(m, k, v) == [i \in DOMAIN m \cup {k} |-> IF i = k THEN v ELSE m[i]]

Delete(m, k) == [i \in DOMAIN m \ {k} |-> m[i]]

\* Reader as it would be if the id of the new Reader were the number of registered
\* readers instead of s.maxReaderID.
Reader_IdFromRegistrySize(spec, storeOk) ==
    /\ Ready
    /\ maxReaderID < MaxReaders
    /\ LET err == ReaderErr(spec, storeOk)
           id  == Cardinality(DOMAIN readers)
       IN  /\ last' = [Call("Reader", err, IF err = "nil" THEN id ELSE -1)
                          EXCEPT !.spec = spec, !.storeOk = storeOk]
           /\ IF err # "nil"
              THEN UNCHANGED <<readers, maxReaderID, handles>>
              ELSE /\ handles' = Append(handles, [id |-> id, open |-> TRUE,
                                                returned |-> TRUE])
                   /\ readers' = Put(readers, id, Len(handles) + 1)
                   /\ maxReaderID' = maxReaderID + 1
    /\ UNCHANGED <<root, off, closed, notified, sink, wlog, variant, rwmutex, pc, loc>>

Reader(spec, storeOk) ==
    /\ Ready
    /\ maxReaderID < MaxReaders
    /\ LET err == ReaderErr(spec, storeOk)
       IN  /\ last' = [Call("Reader", err, IF err = "nil" THEN maxReaderID ELSE -1)
                          EXCEPT !.spec = spec, !.storeOk = storeOk]
           /\ IF err # "nil"
              THEN UNCHANGED <<readers, maxReaderID, handles>>
              ELSE /\ handles' = Append(handles, [id |-> maxReaderID, open |-> TRUE,
                                                returned |-> TRUE])
                   /\ readers' = Put(readers, maxReaderID, Len(handles) + 1)
                   /\ maxReaderID' = maxReaderID + 1
    /\ UNCHANGED <<root, off, closed, notified, sink, wlog, variant, rwmutex, pc, loc>>

\* closedReader(r), r the h-th Reader handed out.
closedReader(h) ==
    /\ Ready
    /\ h \in DOMAIN handles
    /\ IF closed
       THEN /\ last' = Call("closedReader", "ErrAlreadyClosed", handles[h].id)
            /\ UNCHANGED <<readers, handles>>
       ELSE /\ last' = Call("closedReader", "nil", handles[h].id)
            /\ readers' = Delete(readers, handles[h].id)
            /\ handles' = [handles EXCEPT ![h].open = FALSE]
    /\ UNCHANGED <<root, off, closed, maxReaderID, notified, sink, wlog,
                   variant, rwmutex, pc, loc>>

\* Close as it would be without the check of the reader registry.
Close_NoReadersCheck(treeErr) ==
    /\ Ready
    /\ treeErr = "nil" \/ notified < MaxNotifyFail
    /\ IF closed
       THEN /\ last' = [Call("Close", "ErrAlreadyClosed", 0) EXCEPT !.treeErr = treeErr]
            /\ UNCHANGED <<closed, notified>>
       ELSE /\ notified' = notified + 1
            /\ last' = [Call("Close", treeErr, 0) EXCEPT !.treeErr = treeErr]
            /\ closed' = IF treeErr # "nil" THEN closed ELSE TRUE
    /\ UNCHANGED <<root, off, readers, maxReaderID, handles, sink, wlog,
                   variant, rwmutex, pc, loc>>

\* Close as it would be if it marked the snapshot closed before asking the tree.
Close_MarksBeforeNotify(treeErr) ==
    /\ Ready
    /\ treeErr = "nil" \/ notified < MaxNotifyFail
    /\ IF closed
       THEN /\ last' = [Call("Close", "ErrAlreadyClosed", 0) EXCEPT !.treeErr = treeErr]
            /\ UNCHANGED <<closed, notified>>
       ELSE IF Cardinality(DOMAIN readers) > 0
       THEN /\ last' = [Call("Close", "ErrReadersNotClosed", 0) EXCEPT !.treeErr = treeErr]
            /\ UNCHANGED <<closed, notified>>
       ELSE /\ notified' = notified + 1
            /\ last' = [Call("Close", treeErr, 0) EXCEPT !.treeErr = treeErr]
            /\ closed' = TRUE
    /\ UNCHANGED <<root, off, readers, maxReaderID, handles, sink, wlog,
                   variant, rwmutex, pc, loc>>

\* Close; treeErr is what the owning tree's snapshotClosed answers when it is called.
Close(treeErr) ==
    /\ Ready
    /\ treeErr = "nil" \/ notified < MaxNotifyFail
    /\ IF closed
       THEN /\ last' = [Call("Close", "ErrAlreadyClosed", 0) EXCEPT !.treeErr = treeErr]
            /\ UNCHANGED <<closed, notified>>
       ELSE IF Cardinality(DOMAIN readers) > 0
       THEN /\ last' = [Call("Close", "ErrReadersNotClosed", 0) EXCEPT !.treeErr = treeErr]
            /\ UNCHANGED <<closed, notified>>
       ELSE /\ notified' = notified + 1
            /\ last' = [Call("Close", treeErr, 0) EXCEPT !.treeErr = treeErr]
            /\ closed' = IF treeErr # "nil" THEN closed ELSE TRUE
    /\ UNCHANGED <<root, off, readers, maxReaderID, handles, sink, wlog,
                   variant, rwmutex, pc, loc>>

\* Snapshot.WriteTo(w, writeOpts): the root written as root; n is the root's tw.
WriteTo(w, writeOpts, storeOk) ==
    LET r == node_writeTo(root, TRUE, writeOpts, NewIO(off, w, storeOk))
    IN  /\ Ready
        /\ off' = r.io.off
        /\ sink' = r.io.sink
        /\ wlog' = r.io.log
        /\ last' = [Call("WriteTo", r.err, r.tw)
                       EXCEPT !.opts = writeOpts, !.w = w, !.storeOk = storeOk,
                              !.calls = r.io.calls]
        /\ UNCHANGED <<root, closed, readers, maxReaderID, notified, handles,
                       variant, rwmutex, pc, loc>>

\* The caller takes the result of its call (and the buffer it wrote to) away.
Return ==
    /\ ~Ready
    /\ last' = NoCall
    /\ sink' = <<>>
    /\ wlog' = <<>>
    /\ UNCHANGED <<root, off, closed, readers, maxReaderID, notified, handles,
                   variant, rwmutex, pc, loc>>

(***************************************************************************)
(* Spec: the lifecycle of one snapshot under one caller.                   *)
(***************************************************************************)
Next ==
    \/ \E key \in Keys, storeOk \in BOOLEAN : Get(key, storeOk)
    \/ Ts
    \/ \E spec \in ReaderSpecs, storeOk \in BOOLEAN : Reader(spec, storeOk)
    \/ \E h \in 1..MaxReaders : closedReader(h)
    \/ \E treeErr \in {"nil", "ErrTree"} : Close(treeErr)
    \/ Return

Spec == Init /\ [][Next]_vars

(***************************************************************************)
(* SpecWrite: serialization of one snapshot under one caller, who may      *)
(* close the snapshot (the tree accepting the release) between two dumps.  *)
(***************************************************************************)
NextWrite ==
    \/ \E w \in Sinks, writeOpts \in WriteOptsSet, storeOk \in BOOLEAN :
          WriteTo(w, writeOpts, storeOk)
    \/ Close("nil")
    \/ Return

SpecWrite == Init /\ [][NextWrite]_vars

(***************************************************************************)
(* The registry under concurrent callers.  Each thread runs one Snapshot   *)
(* method at a time; a method is cut where it reads or writes the shared   *)
(* fields closed, readers and maxReaderID.  With variant = "rwmutex" the   *)
(* methods take s.rwmutex as lines 66-138 do: Reader the read lock,        *)
(* closedReader and Close the write lock, each held until the return.      *)
(* With variant = "unlocked" (lines 368-431) no lock is taken.             *)
(***************************************************************************)
Locked == variant = "rwmutex"

CanRLock == ~Locked \/ rwmutex.w = 0
CanLock == ~Locked \/ (rwmutex.w = 0 /\ rwmutex.r = 0)

RLock == IF Locked THEN [rwmutex EXCEPT !.r = @ + 1] ELSE rwmutex
RUnlock == IF Locked THEN [rwmutex EXCEPT !.r = @ - 1] ELSE rwmutex
Lock(t) == IF Locked THEN [rwmutex EXCEPT !.w = t] ELSE rwmutex
Unlock == IF Locked THEN [rwmutex EXCEPT !.w = 0] ELSE rwmutex

Frame == <<root, off, last, sink, wlog, variant>>

\* Reader, lines 67-84: RLock, the closed check, the spec check and the descent.
Reader_enter(t, spec) ==
    /\ pc[t] = "idle"
    /\ Len(handles) + Cardinality({u \in Threads : pc[u] = "Reader_id"}) < MaxReaders
    /\ CanRLock
    /\ IF ReaderErr(spec, TRUE) # "nil"
       THEN UNCHANGED <<pc, rwmutex>>
       ELSE pc' = [pc EXCEPT ![t] = "Reader_id"] /\ rwmutex' = RLock
    /\ UNCHANGED <<closed, readers, maxReaderID, notified, handles, loc>>
    /\ UNCHANGED Frame

\* Reader, lines 86-96: the Reader is built with id = s.maxReaderID.
Reader_id(t) ==
    /\ pc[t] = "Reader_id"
    /\ handles' = Append(handles, [id |-> maxReaderID, open |-> TRUE, returned |-> FALSE])
    /\ loc' = [loc EXCEPT ![t].id = maxReaderID, ![t].h = Len(handles) + 1]
    /\ pc' = [pc EXCEPT ![t] = "Reader_put"]
    /\ UNCHANGED <<closed, readers, maxReaderID, notified, rwmutex>>
    /\ UNCHANGED Frame

\* Reader, line 98: s.readers[reader.id] = reader.
Reader_put(t) ==
    /\ pc[t] = "Reader_put"
    /\ readers' = Put(readers, loc[t].id, loc[t].h)
    /\ pc' = [pc EXCEPT ![t] = "Reader_load"]
    /\ UNCHANGED <<closed, maxReaderID, notified, handles, rwmutex, loc>>
    /\ UNCHANGED Frame

\* Reader, line 100: s.maxReaderID++ reads the field ...
Reader_load(t) ==
    /\ pc[t] = "Reader_load"
    /\ loc' = [loc EXCEPT ![t].tmp = maxReaderID]
    /\ pc' = [pc EXCEPT ![t] = "Reader_store"]
    /\ UNCHANGED <<closed, readers, maxReaderID, notified, handles, rwmutex>>
    /\ UNCHANGED Frame

\* ... and writes it back incremented; then the Reader is returned (RUnlock).
Reader_store(t) ==
    /\ pc[t] = "Reader_store"
    /\ maxReaderID' = loc[t].tmp + 1
    /\ handles' = [handles EXCEPT ![loc[t].h].returned = TRUE]
    /\ rwmutex' = RUnlock
    /\ pc' = [pc EXCEPT ![t] = "idle"]
    /\ UNCHANGED <<closed, readers, notified, loc>>
    /\ UNCHANGED Frame

\* closedReader(r), lines 106-111: Lock and the closed check; r is a Reader some
\* Reader call has returned and whose Close has not yet come back.
closedReader_enter(t, h) ==
    /\ pc[t] = "idle"
    /\ h \in DOMAIN handles
    /\ handles[h].returned /\ handles[h].open
    /\ \A u \in Threads : pc[u] = "closedReader_delete" => loc[u].h # h
    /\ CanLock
    /\ IF closed
       THEN UNCHANGED <<pc, rwmutex, loc>>
       ELSE /\ pc' = [pc EXCEPT ![t] = "closedReader_delete"]
            /\ loc' = [loc EXCEPT ![t].h = h]
            /\ rwmutex' = Lock(t)
    /\ UNCHANGED <<closed, readers, maxReaderID, notified, handles>>
    /\ UNCHANGED Frame

\* closedReader, lines 113-115: delete(s.readers, r.id), Unlock.
closedReader_delete(t) ==
    /\ pc[t] = "closedReader_delete"
    /\ readers' = Delete(readers, handles[loc[t].h].id)
    /\ handles' = [handles EXCEPT ![loc[t].h].open = FALSE]
    /\ rwmutex' = Unlock
    /\ pc' = [pc EXCEPT ![t] = "idle"]
    /\ UNCHANGED <<closed, maxReaderID, notified, loc>>
    /\ UNCHANGED Frame

\* Close, lines 119-124: Lock and the closed check.
Close_enter(t) ==
    /\ pc[t] = "idle"
    /\ CanLock
    /\ IF closed
       THEN UNCHANGED <<pc, rwmutex>>
       ELSE pc' = [pc EXCEPT ![t] = "Close_len"] /\ rwmutex' = Lock(t)
    /\ UNCHANGED <<closed, readers, maxReaderID, notified, handles, loc>>
    /\ UNCHANGED Frame

\* Close, lines 126-128: len(s.readers) > 0 returns ErrReadersNotClosed.
Close_len(t) ==
    /\ pc[t] = "Close_len"
    /\ IF Cardinality(DOMAIN readers) > 0
       THEN pc' = [pc EXCEPT ![t] = "idle"] /\ rwmutex' = Unlock
       ELSE pc' = [pc EXCEPT ![t] = "Close_notify"] /\ UNCHANGED rwmutex
    /\ UNCHANGED <<closed, readers, maxReaderID, notified, handles, loc>>
    /\ UNCHANGED Frame

\* Close, lines 130-133: s.t.snapshotClosed(s); its error is returned.
Close_notify(t, treeErr) ==
    /\ pc[t] = "Close_notify"
    /\ treeErr = "nil" \/ notified < MaxNotifyFail
    /\ notified' = notified + 1
    /\ IF treeErr # "nil"
       THEN pc' = [pc EXCEPT ![t] = "idle"] /\ rwmutex' = Unlock
       ELSE pc' = [pc EXCEPT ![t] = "Close_mark"] /\ UNCHANGED rwmutex
    /\ UNCHANGED <<closed, readers, maxReaderID, handles, loc>>
    /\ UNCHANGED Frame

\* Close, lines 135-137: s.closed = true, Unlock.
Close_mark(t) ==
    /\ pc[t] = "Close_mark"
    /\ closed' = TRUE
    /\ rwmutex' = Unlock
    /\ pc' = [pc EXCEPT ![t] = "idle"]
    /\ UNCHANGED <<readers, maxReaderID, notified, handles, loc>>
    /\ UNCHANGED Frame

NextConc ==
    \E t \in Threads :
        \/ \E spec \in ReaderSpecs : Reader_enter(t, spec)
        \/ Reader_id(t)
        \/ Reader_put(t)
        \/ Reader_load(t)
        \/ Reader_store(t)
        \/ \E h \in 1..MaxReaders : closedReader_enter(t, h)
        \/ closedReader_delete(t)
        \/ Close_enter(t)
        \/ Close_len(t)
        \/ \E treeErr \in {"nil", "ErrTree"} : Close_notify(t, treeErr)
        \/ Close_mark(t)

InitConc(v) ==
    /\ variant = v
    /\ root = 1
    /\ off = [n \in Nodes |-> IF kind(n) = "ref" \/ n = 6 THEN HomeOff(n) ELSE 0]
    /\ closed = FALSE
    /\ readers = <<>>
    /\ maxReaderID = 0
    /\ notified = 0
    /\ handles = <<>>
    /\ last = NoCall
    /\ sink = <<>>
    /\ wlog = <<>>
    /\ rwmutex = [r |-> 0, w |-> 0]
    /\ pc = [t \in Threads |-> "idle"]
    /\ loc = [t \in Threads |-> [id |-> 0, tmp |-> 0, h |-> 0]]

\* Concurrent callers of the Snapshot of lines 34-138 (s.rwmutex).
InitRWMutex == InitConc("rwmutex")

SpecRWMutex == InitRWMutex /\ [][NextConc]_vars

\* Concurrent callers of the Snapshot of lines 343-431 (no lock).
InitUnlocked == InitConc("unlocked")

SpecUnlocked == InitUnlocked /\ [][NextConc]_vars

(***************************************************************************)
(* SpecHelper: the byte-write helper writeTo(buf, w) on its own, for every *)
(* buffer of up to MaxBuf bytes and every sink that answers its first      *)
(* Write calls with a failure or by accepting a non-empty prefix of 1 to   *)
(* MaxBuf bytes of what it is offered, and accepts everything afterwards.  *)
(***************************************************************************)
Bytes == {1, 2}

Bufs == UNION {[1..k -> Bytes] : k \in 0..MaxBuf}

HelperSinks == UNION {[1..k -> {-1} \cup 1..MaxBuf] : k \in 0..MaxResp}

\* One call of the helper: wlog holds the buffer it was given, sink what w accepted.
writeTo_call(buf, w) ==
    LET r == writeTo(buf, NewIO(off, w, TRUE))
    IN  /\ Ready
        /\ sink' = r.io.sink
        /\ wlog' = <<[node |-> 0, asRoot |-> FALSE, buf |-> buf, at |-> 0]>>
        /\ last' = [Call("writeTo", r.err, 0) EXCEPT !.w = w, !.calls = r.io.calls]
        /\ UNCHANGED <<root, off, closed, readers, maxReaderID, notified, handles,
                       variant, rwmutex, pc, loc>>

NextHelper ==
    \/ \E buf \in Bufs, w \in HelperSinks : writeTo_call(buf, w)
    \/ Return

InitHelper == InitConc("unlocked")

SpecHelper == InitHelper /\ [][NextHelper]_vars

(***************************************************************************)
(* Properties of the lifecycle (checked under Spec).                       *)
(***************************************************************************)
LifecycleOps == {"Get", "Ts", "Reader", "closedReader", "Close"}

\* C1: once Close has succeeded the closed flag stays true, and every later Get, Ts,
\* Reader, closedReader and Close fails with AlreadyClosed; a Get after Close returns
\* no value.
C1_ClosedIsFinal ==
    /\ last.op # "none" /\ last.pre.closed => closed
    /\ last.op \in LifecycleOps /\ last.pre.closed => last.err = "ErrAlreadyClosed"
    /\ last.op = "Get" /\ last.pre.closed => last.val = NoValue

\* A Get after a successful Close for a key the snapshot holds.
C1_Witness ==
    /\ last.op = "Get"
    /\ last.pre.closed
    /\ get(root, last.key, TRUE).err = "nil"
    /\ last.err = "ErrAlreadyClosed"

\* C2: Close on an open snapshot with a registered reader returns ReadersNotClosed,
\* does not notify the tree and changes neither closed nor the registry; when every
\* reader handed out has been removed through closedReader, Close succeeds if
\* snapshotClosed does.
C2_CloseNeedsNoReaders ==
    /\ last.op = "Close" /\ ~last.pre.closed /\ DOMAIN last.pre.readers # {}
          => /\ last.err = "ErrReadersNotClosed"
             /\ notified = last.pre.notified
             /\ ~closed
             /\ readers = last.pre.readers
    /\ last.op = "Close" /\ ~last.pre.closed /\ last.treeErr = "nil"
          /\ (\A h \in DOMAIN handles : ~handles[h].open)
          => last.err = "nil" /\ closed

\* Close succeeded after readers had been handed out and all of them closed.
C2_Witness ==
    /\ last.op = "Close"
    /\ Len(handles) = MaxReaders
    /\ \A h \in DOMAIN handles : ~handles[h].open
    /\ last.err = "nil"
    /\ closed

\* Close was refused because a reader was still registered.
C2_WitnessRefused ==
    /\ last.op = "Close"
    /\ last.err = "ErrReadersNotClosed"
    /\ DOMAIN readers # {}

\* C5: snapshotClosed is invoked once by a successful Close and not at all by a Close
\* that fails with AlreadyClosed or ReadersNotClosed; when snapshotClosed fails, Close
\* returns its error and the snapshot stays open with its registry unchanged (and
\* empty, so that a later Close is not refused).
C5_NotifyOncePerClose ==
    last.op = "Close" =>
        /\ last.err = "nil" => notified = last.pre.notified + 1 /\ closed /\ ~last.pre.closed
        /\ last.err \in {"ErrAlreadyClosed", "ErrReadersNotClosed"}
              => notified = last.pre.notified /\ closed = last.pre.closed
        /\ notified # last.pre.notified /\ last.treeErr # "nil"
              => /\ last.err = last.treeErr
                 /\ ~closed
                 /\ readers = last.pre.readers
                 /\ DOMAIN readers = {}
        /\ notified \in {last.pre.notified, last.pre.notified + 1}

\* A Close that succeeded after an earlier Close had failed in snapshotClosed.
C5_Witness ==
    /\ last.op = "Close"
    /\ last.err = "nil"
    /\ last.pre.notified = 1
    /\ notified = 2
    /\ closed

(***************************************************************************)
(* Properties of the registry under concurrent callers.                    *)
(***************************************************************************)
\* C3: in every reachable state closed = true implies that the reader registry is
\* empty, whatever the interleaving of Reader, closedReader and Close.
C3_ClosedImpliesNoReaders == closed => DOMAIN readers = {}

Quiet == \A t \in Threads : pc[t] = "idle"

\* C4: when the Reader calls that ran concurrently have all returned, the Readers they
\* returned have distinct ids, each still open one is in the registry under its id,
\* maxReaderID has advanced by the number of successful calls, and the snapshot is
\* not closed while one of them is open.
C4_RegistrationSerialized ==
    Quiet =>
        /\ \A g, h \in DOMAIN handles : g # h => handles[g].id # handles[h].id
        /\ \A h \in DOMAIN handles :
              handles[h].open =>
                  handles[h].id \in DOMAIN readers /\ readers[handles[h].id] = h
        /\ maxReaderID = Len(handles)
        /\ closed => \A h \in DOMAIN handles : ~handles[h].open

(***************************************************************************)
(* Properties of the serializer (checked under SpecWrite).                 *)
(***************************************************************************)
\* C6: a WriteTo called after a successful Close does not succeed and delivers no
\* bytes to the sink.
C6_NoWriteAfterClose ==
    last.op = "WriteTo" /\ last.pre.closed => last.err # "nil" /\ sink = <<>>

\* The test by which writeTo skips node n under OnlyMutated, offsets o.
Skipped(o, n) ==
    IF kind(n) = "ref"
    THEN Graph[n].node = 0 \/ offset(o, Graph[n].node) > 0
    ELSE o[n] > 0

\* writeTo of node n with OnlyMutated on the offsets of the current state, given a sink
\* whose every Write fails and a node store that cannot load: any Write call and any
\* load would show as an error.
ProbeSkip(n, asRoot, base, commit) ==
    node_writeTo(n, asRoot, [OnlyMutated |-> TRUE, BaseOffset |-> base, CommitLog |-> commit],
                 NewIO(off, <<-1>>, FALSE))

\* C7: with OnlyMutated, writeTo on a node whose offset is set (for a reference: that
\* is unresolved or whose node is persisted) writes no byte, makes no Write call,
\* visits no child, loads nothing from the node store, changes no offset and reports
\* the node's offset; and so does a WriteTo whose root is such a node.
C7_PersistedNodeSkipped ==
    /\ Ready =>
          \A n \in ReachOf[root], asRoot \in BOOLEAN, base \in {0, 64}, commit \in BOOLEAN :
              Skipped(off, n) =>
                  LET r == ProbeSkip(n, asRoot, base, commit)
                  IN  /\ r.err = "nil"
                      /\ r.tw = 0
                      /\ r.off = off[n]
                      /\ r.io.sink = <<>>
                      /\ r.io.calls = 0
                      /\ r.io.log = <<>>
                      /\ r.io.off = off
    /\ last.op = "WriteTo" /\ last.opts.OnlyMutated /\ Skipped(last.pre.off, root)
          => /\ last.err = "nil"
             /\ last.val = 0
             /\ sink = <<>>
             /\ wlog = <<>>
             /\ off = last.pre.off

\* A WriteTo with OnlyMutated on a persisted inner root with a sink that fails.
C7_Witness ==
    /\ last.op = "WriteTo"
    /\ last.opts.OnlyMutated
    /\ kind(root) = "inner"
    /\ last.pre.off[root] > 0
    /\ last.w = <<-1>>
    /\ last.err = "nil"
    /\ sink = <<>>

\* The WriteTo of the last call again, from the offsets it started with, with
\* OnlyMutated = onlyMutated.
Redo(onlyMutated) ==
    node_writeTo(root, TRUE, [last.opts EXCEPT !.OnlyMutated = onlyMutated],
                 NewIO(last.pre.off, last.w, last.storeOk))

RECURSIVE BodyEnd(_, _, _, _)
BodyEnd(buf, p, k, isLeaf) ==
    IF k = 0 THEN p - 1
    ELSE LET klen == Uint32(buf, p)
         IN  IF isLeaf
             THEN LET vlen == Uint32(buf, p + 4 + klen)
                  IN  BodyEnd(buf, p + 4 + klen + 4 + vlen + 8 + 8, k - 1, isLeaf)
             ELSE BodyEnd(buf, p + 4 + klen + 8 + 4 + 8, k - 1, isLeaf)

RecordEnd(buf) ==
    BodyEnd(buf, 10, Uint32(buf, 6), buf[1] \in {LeafNodeType, RootLeafNodeType})

\* C9: a record written as root carries the root tag of its node type and ends with a
\* 4-byte size field equal to the one after the tag; a record written as non-root
\* carries the non-root tag and ends with its last entry.
C9_RootSizeMirrored ==
    \A i \in DOMAIN wlog :
        LET e == wlog[i]
        IN  IF e.asRoot
            THEN /\ e.buf[1] = IF kind(e.node) = "inner" THEN RootInnerNodeType
                                                         ELSE RootLeafNodeType
                 /\ Len(e.buf) = RecordEnd(e.buf) + 4
                 /\ Uint32(e.buf, 2) = Uint32(e.buf, Len(e.buf) - 3)
            ELSE /\ e.buf[1] = IF kind(e.node) = "inner" THEN InnerNodeType
                                                         ELSE LeafNodeType
                 /\ Len(e.buf) = RecordEnd(e.buf)

\* A dump that wrote non-root records and then the record of an inner root.
C9_Witness ==
    /\ last.op = "WriteTo"
    /\ last.err = "nil"
    /\ Len(wlog) >= 3
    /\ wlog[Len(wlog)].asRoot
    /\ wlog[Len(wlog)].node = root
    /\ kind(root) = "inner"
    /\ ~wlog[1].asRoot

\* A dump whose root record is that of a leaf.
C9_WitnessLeafRoot ==
    /\ last.op = "WriteTo"
    /\ last.err = "nil"
    /\ Len(wlog) = 1
    /\ wlog[1].asRoot
    /\ kind(wlog[1].node) = "leaf"

\* C10: a WriteTo with CommitLog = false leaves the offset of every node as it was,
\* whether it succeeds, fails or does not return.
C10_NoCommitKeepsOffsets ==
    last.op = "WriteTo" /\ ~last.opts.CommitLog => off = last.pre.off

\* A successful dump without CommitLog of a tree with unpersisted nodes at BaseOffset 64.
C10_Witness ==
    /\ last.op = "WriteTo"
    /\ ~last.opts.CommitLog
    /\ last.opts.BaseOffset = 64
    /\ last.err = "nil"
    /\ Len(wlog) >= 2
    /\ \E n \in ReachOf[root] : kind(n) # "ref" /\ off[n] = 0

\* A dump without CommitLog that failed after it had written a record.
C10_WitnessFailed ==
    /\ last.op = "WriteTo"
    /\ ~last.opts.CommitLog
    /\ last.err = "ErrIO"
    /\ sink # <<>>

\* The number of bytes of the records the last WriteTo wrote before its i-th record.
BytesBefore(i) == SumSeq([j \in 1..(i - 1) |-> Len(wlog[j].buf)], 1)

\* C11: after a successful WriteTo with CommitLog, the offset of every node whose
\* record the call wrote is BaseOffset plus the number of bytes of the call's output
\* before that record (when no Write call was short the record stands at that
\* position of the stream), the output has the length of the records written, and
\* the offsets of two written nodes differ.
C11_CommittedOffsetIsPosition ==
    last.op = "WriteTo" /\ last.err = "nil" /\ last.opts.CommitLog =>
        /\ \A i \in DOMAIN wlog :
              /\ off[wlog[i].node] = last.opts.BaseOffset + BytesBefore(i)
              /\ (\A k \in DOMAIN last.w : last.w[k] <= 0)
                    => SubSeq(sink, BytesBefore(i) + 1, BytesBefore(i) + Len(wlog[i].buf))
                          = wlog[i].buf
        /\ Len(sink) = BytesBefore(Len(wlog) + 1)
        /\ last.val = Len(sink)
        /\ \A i, j \in DOMAIN wlog :
              i # j => /\ wlog[i].node # wlog[j].node
                       /\ off[wlog[i].node] # off[wlog[j].node]

\* A committed dump at BaseOffset 64 of an inner root with an inner child: at least
\* four records, the last one the root's.
C11_Witness ==
    /\ last.op = "WriteTo"
    /\ last.err = "nil"
    /\ last.opts.CommitLog
    /\ last.opts.BaseOffset = 64
    /\ Len(wlog) >= 4
    /\ off[root] = 64 + BytesBefore(Len(wlog))
    /\ \E i \in DOMAIN wlog : wlog[i].node # root /\ kind(wlog[i].node) = "inner"

\* The position in the script of sink w of the Write call that reports a failure, 0
\* when no call does.
FailAt(w) ==
    IF \E k \in DOMAIN w : w[k] = -1 THEN CHOOSE k \in DOMAIN w : w[k] = -1 ELSE 0

\* C12: when a Write call of the sink reports a failure during a WriteTo, WriteTo
\* returns that error with byte count 0, the failing call is the last Write call made
\* and the buffer it was offered the last record attempted; WriteTo returns the I/O
\* error in no other case.
C12_WriteFailureAborts ==
    last.op = "WriteTo" =>
        /\ FailAt(last.w) # 0 /\ last.calls >= FailAt(last.w)
              => /\ last.err = "ErrIO"
                 /\ last.val = 0
                 /\ last.calls = FailAt(last.w)
                 /\ Len(wlog) = FailAt(last.w)
                 /\ Len(sink) = BytesBefore(Len(wlog))
        /\ last.err = "ErrIO" => FailAt(last.w) # 0 /\ last.calls = FailAt(last.w)

\* A full dump of the tree rooted at node 1 whose second Write call failed: the first
\* leaf was written, the records of its siblings, parent and root were not attempted.
C12_Witness ==
    /\ last.op = "WriteTo"
    /\ root = 1
    /\ ~last.opts.OnlyMutated
    /\ last.w = <<0, -1>>
    /\ last.err = "ErrIO"
    /\ last.calls = 2
    /\ sink = wlog[1].buf

(***************************************************************************)
(* Properties of the byte-write helper (checked under SpecHelper).         *)
(***************************************************************************)
\* C13: when the byte-write helper returns success on a sink that accepts a non-empty
\* prefix of what it is offered on each call, the bytes the sink accepted, in call
\* order, are exactly the buffer.
C13_ShortWritesTransmitBuffer ==
    last.op = "writeTo" /\ FailAt(last.w) = 0 /\ last.err = "nil" => sink = wlog[1].buf

\* C14: on a sink that on each call returns an error or accepts at least one byte the
\* helper terminates: it returns, either nil with as many bytes written as the buffer
\* holds or the I/O error the sink reported.
C14_HelperTerminates ==
    last.op = "writeTo" =>
        /\ last.err \in {"nil", "ErrIO"}
        /\ last.err = "nil" => Len(sink) = Len(wlog[1].buf)
        /\ last.err = "ErrIO" => FailAt(last.w) # 0

(***************************************************************************)
(* Further properties of the lifecycle (checked under Spec).               *)
(***************************************************************************)
\* The error of the descent the last Reader call made.
Descent == findLeafNode(root, last.spec.initialKey, last.spec.ascOrder, last.storeOk)

\* C15: a Reader call on an open snapshot fails with IllegalArgument when the spec is
\* absent, with NoMoreEntries (never KeyNotFound) when the descent reports key not
\* found, as for every initialKey on an empty snapshot, and with the descent's error
\* when it reports another one; a Reader call that fails leaves the registry and
\* maxReaderID as they were and hands out no Reader.
C15_FailedReaderRegistersNothing ==
    /\ last.op = "Reader" /\ ~last.pre.closed =>
          /\ last.spec.nil => last.err = "ErrIllegalArgument"
          /\ ~last.spec.nil /\ Descent = "ErrKeyNotFound" => last.err = "ErrNoMoreEntries"
          /\ ~last.spec.nil /\ Graph[root].kind = "leaf" /\ Graph[root].values = NoEntries
                => last.err = "ErrNoMoreEntries"
          /\ ~last.spec.nil /\ Descent \notin {"nil", "ErrKeyNotFound"}
                => last.err = Descent
          /\ last.err # "ErrKeyNotFound"
    /\ last.op = "Reader" /\ last.err # "nil" =>
          /\ readers = last.pre.readers
          /\ maxReaderID = last.pre.maxReaderID
          /\ last.val = -1
    /\ Len(handles) = maxReaderID

\* A Reader call that found no starting position while another reader was registered.
C15_Witness ==
    /\ last.op = "Reader"
    /\ last.err = "ErrNoMoreEntries"
    /\ Descent = "ErrKeyNotFound"
    /\ DOMAIN readers # {}
    /\ maxReaderID = 1

\* A Reader call on the empty snapshot.
C15_WitnessEmpty ==
    /\ last.op = "Reader"
    /\ root = 9
    /\ ~last.spec.nil
    /\ last.err = "ErrNoMoreEntries"

\* A Reader call whose descent failed in the node store.
C15_WitnessStore ==
    /\ last.op = "Reader"
    /\ last.err = "ErrStore"
    /\ ~last.storeOk

(***************************************************************************)
(* Further properties of the serializer (checked under SpecWrite).         *)
(***************************************************************************)
\* The childOffset field of the i-th child reference record of inner record buf, the
\* child reference records starting at position p.
RECURSIVE ChildOffset(_, _, _)
ChildOffset(buf, p, i) ==
    LET klen == Uint32(buf, p)
    IN  IF i = 1 THEN Uint32(buf, p + 4 + klen + 8 + 4 + 4)
        ELSE ChildOffset(buf, p + 4 + klen + 8 + 4 + 8, i - 1)

\* The node whose record stands for child c: c itself, or the node reference c stands for.
Target(c) ==
    IF kind(c) = "ref"
    THEN (IF Graph[c].node # 0 THEN Graph[c].node ELSE Graph[c].store)
    ELSE c

\* C16: in every inner-node record of a successful WriteTo the childOffset of each
\* child is the offset the child's writeTo reported in that call: the position its
\* record was given in the stream when it was written in this call, its offset before
\* the call when it was skipped.
C16_ChildOffsetIsReported ==
    last.op = "WriteTo" /\ last.err = "nil" =>
        \A e \in DOMAIN wlog :
            kind(wlog[e].node) = "inner" =>
                \A i \in DOMAIN Graph[wlog[e].node].nodes :
                    LET c       == Graph[wlog[e].node].nodes[i]
                        written == {j \in DOMAIN wlog : wlog[j].node = Target(c)}
                        stored  == ChildOffset(wlog[e].buf, 10, i)
                    IN  IF written # {}
                        THEN \A j \in written : stored = wlog[j].at
                        ELSE stored = last.pre.off[c]

RootTags == {RootInnerNodeType, RootLeafNodeType}

\* In the stream of a successful WriteTo every record of a child stands before the
\* record of its parent, and the last record is the one of the snapshot root (of the
\* node it stands for when the root is a node reference) and the only one with a
\* root tag.
ChildrenFirstRootLast ==
    /\ \A p \in DOMAIN wlog :
          kind(wlog[p].node) = "inner" =>
              \A i \in DOMAIN Graph[wlog[p].node].nodes :
                  \A j \in DOMAIN wlog :
                      wlog[j].node = Target(Graph[wlog[p].node].nodes[i]) => j < p
    /\ wlog # <<>> => wlog[Len(wlog)].node = Target(root)
    /\ \A j \in DOMAIN wlog : wlog[j].buf[1] \in RootTags <=> j = Len(wlog)

\* The nodes the dump of the snapshot reaches through a node reference.
ViaRef == {Target(c) : c \in {m \in ReachOf[root] : kind(m) = "ref"}}

\* The same for the node references that are children.
ViaChildRef == {Target(c) : c \in {m \in ReachOf[root] \ {root} : kind(m) = "ref"}}

\* C17 as stated: children before parents, the root's record last and alone with a root
\* tag, and every node reached through a node reference written as non-root.
C17_RootRecordLast ==
    last.op = "WriteTo" /\ last.err = "nil" =>
        /\ ChildrenFirstRootLast
        /\ \A j \in DOMAIN wlog :
              wlog[j].node \in ViaRef => wlog[j].buf[1] \notin RootTags

\* C17 amended: the same, with non-root for the nodes reached through the node
\* references that are children; the node a root reference stands for is written as
\* the root record.
C17_RootRecordLastChildRefs ==
    last.op = "WriteTo" /\ last.err = "nil" =>
        /\ ChildrenFirstRootLast
        /\ \A j \in DOMAIN wlog :
              wlog[j].node \in ViaChildRef => wlog[j].buf[1] \notin RootTags
        /\ kind(root) = "ref" /\ wlog # <<>> =>
              wlog[Len(wlog)].node \in ViaRef /\ wlog[Len(wlog)].buf[1] \in RootTags

\* A full dump of the tree rooted at node 1: the nodes behind both child references
\* are written, the inner child after its children, the root last.
C17_Witness ==
    /\ last.op = "WriteTo"
    /\ last.err = "nil"
    /\ root = 1
    /\ Len(wlog) = 6
    /\ wlog[6].node = 1
    /\ \E j \in DOMAIN wlog : wlog[j].node = 6
    /\ \E j \in DOMAIN wlog : wlog[j].node = 8

\* A dump of a snapshot whose root is a node reference.
C17_WitnessRootRef ==
    /\ last.op = "WriteTo"
    /\ last.err = "nil"
    /\ kind(root) = "ref"
    /\ Len(wlog) = 1
    /\ wlog[1].buf[1] = RootLeafNodeType

\* The WriteTo that follows the last call at once: OnlyMutated, from the offsets the
\* last call left, on a sink that accepts everything.
Again(base, commit) ==
    node_writeTo(root, TRUE, [OnlyMutated |-> TRUE, BaseOffset |-> base, CommitLog |-> commit],
                 NewIO(off, <<>>, last.storeOk))

\* C18: after a successful WriteTo with OnlyMutated and CommitLog, for BaseOffset 0 as
\* for any other, every node the call wrote counts as persisted, and a WriteTo with
\* OnlyMutated that follows at once writes no byte and changes no offset.
C18_FlushIsIdempotent ==
    last.op = "WriteTo" /\ last.err = "nil" /\ last.opts.OnlyMutated /\ last.opts.CommitLog =>
        /\ \A j \in DOMAIN wlog : persisted(off, wlog[j].node)
        /\ \A base \in {0, 64}, commit \in BOOLEAN :
              LET r == Again(base, commit)
              IN  /\ r.err = "nil"
                  /\ r.tw = 0
                  /\ r.io.sink = <<>>
                  /\ r.io.off = off

\* C19: when a WriteTo with CommitLog returns an I/O error, the offset of every node is
\* what it was before the call.
C19_FailedWriteKeepsOffsets ==
    last.op = "WriteTo" /\ last.opts.CommitLog /\ last.err = "ErrIO" => off = last.pre.off

(***************************************************************************)
(* The reader ids over a history of calls made one after another (Spec).   *)
(***************************************************************************)
\* C20: maxReaderID grows by one with every successful Reader call, whose Reader gets
\* the former maxReaderID as its id, and is changed by no other call; every id in the
\* registry is below maxReaderID; no two Readers handed out have the same id, closed
\* or not; closedReader removes the entry of the given id and no other.
C20_ReaderIdsNeverReused ==
    /\ last.op = "Reader" /\ last.err = "nil"
          => /\ maxReaderID = last.pre.maxReaderID + 1
             /\ last.val = last.pre.maxReaderID
             /\ DOMAIN readers = DOMAIN last.pre.readers \cup {last.val}
             /\ \A id \in DOMAIN last.pre.readers : readers[id] = last.pre.readers[id]
    /\ last.op # "none" /\ ~(last.op = "Reader" /\ last.err = "nil")
          => maxReaderID = last.pre.maxReaderID
    /\ \A id \in DOMAIN readers : id < maxReaderID
    /\ \A g, h \in DOMAIN handles : g # h => handles[g].id # handles[h].id
    /\ last.op = "closedReader" /\ last.err = "nil"
          => /\ DOMAIN readers = DOMAIN last.pre.readers \ {last.val}
             /\ \A id \in DOMAIN readers : readers[id] = last.pre.readers[id]
    /\ last.op \in {"closedReader", "Close"} /\ last.err # "nil"
          => readers = last.pre.readers

\* A Reader call that succeeded after the reader with id 0 had been closed, while no
\* reader was registered: it got id 1.
C20_Witness ==
    /\ last.op = "Reader"
    /\ last.err = "nil"
    /\ last.pre.readers = <<>>
    /\ last.pre.maxReaderID = 1
    /\ last.val = 1
    /\ ~handles[1].open

\* A closedReader call that removed one of two registered readers.
C20_WitnessRemoved ==
    /\ last.op = "closedReader"
    /\ last.err = "nil"
    /\ DOMAIN last.pre.readers = {0, 1}
    /\ DOMAIN readers = {1}

====
